---- MODULE Spec2Model ----
(***************************************************************************)
(* PeriodPowerAggregator of src/probability/processing.py: the sums and    *)
(* probs mappings, add_record, finalize, percentiles_for_period and        *)
(* percentiles_all_periods, as a state machine of one aggregator instance; *)
(* and DefaultLineParser.parse of src/probability/core.py with             *)
(* PdfDirectoryReader.iter_records of src/probability/data_io.py, as a     *)
(* reader that feeds the lines of its files to one instance; and main()   *)
(* of src/probability/main.py with PdfDirectoryReader._accept_file and     *)
(* write_percentiles_csv, as the loop over the (station, component) units  *)
(* in which the instance is the aggregator of the unit at work.            *)
(*                                                                         *)
(* Numbers.  A Python float is modelled as a rational <<n, d>> in lowest   *)
(* terms (d > 0).  Every arithmetic result passes through Fl, which is     *)
(* chosen by the variable arith, fixed by the initial state:               *)
(*   arith = "real"   the result is kept exact (IEEE 754 double rounding,  *)
(*                    of relative size 2^-53, is abstracted away);         *)
(*   arith = "float"  the result is rounded to MantBits significant bits,  *)
(*                    ties to even, as IEEE 754 binary arithmetic rounds   *)
(*                    it to 53 bits (the exponent range is not bounded).   *)
(* Comparisons are exact in both.  The non-finite floats are <<1, 0>>      *)
(* (inf), <<-1, 0>> (-inf) and <<0, 0>> (nan); they come from parse only   *)
(* and addition carries them, the other operations are modelled on finite  *)
(* values.                                                                 *)
(*                                                                         *)
(* Mappings.  The outer dicts are functions from period to an inner dict;  *)
(* an inner dict is the sequence of its <<power, value>> items in Python's *)
(* insertion order, which finalize's sum() follows.                        *)
(***************************************************************************)
EXTENDS Integers, Sequences, FiniteSets, TLC

VARIABLES sums,     \* self.sums
          probs,    \* self.probs
          history,  \* the records passed to add_record so far, in call order
          sealed,   \* TRUE once a finalize call has returned normally
          ret,      \* the last call: its name, arguments, exception and value
          arith,    \* "real" or "float", see above
          reader,   \* the PdfDirectoryReader feeding the instance, and how
                    \* far its iter_records generator has got
          driver    \* main(): its arguments, its loop variables and its
                    \* position; the instance of the variables above is the
                    \* aggregator of the unit main() is working on

vars == <<sums, probs, history, sealed, ret, arith, reader, driver>>

(***************************************************************************)
(* Bounds of the model.                                                    *)
(***************************************************************************)
MaxAdds == 3        \* add_record calls in one run
MantBits == 3       \* significant bits of a float when arith = "float"
MaxLines == 3       \* lines read by one reader, over all its files
MaxFiles == 2       \* files accepted by one reader
MaxYearLines == 2   \* lines main() reads from the files of one year

(***************************************************************************)
(* Rational arithmetic.                                                    *)
(***************************************************************************)
Abs(x) == IF x < 0 THEN -x ELSE x

RECURSIVE GCD(_, _)
GCD(a, b) == IF b = 0 THEN a ELSE GCD(b, a % b)

RECURSIVE Pow2(_)
Pow2(k) == IF k = 0 THEN 1 ELSE 2 * Pow2(k - 1)

Rat(n, d) ==
    LET s == IF d < 0 THEN -1 ELSE 1
        g == GCD(Abs(n), Abs(d))
    IN  <<(s * n) \div g, (s * d) \div g>>

Zero == <<0, 1>>
One == <<1, 1>>

RAdd(a, b) ==
    LET g == GCD(a[2], b[2])
    IN  Rat(a[1] * (b[2] \div g) + b[1] * (a[2] \div g), a[2] * (b[2] \div g))

RMul(a, b) ==
    LET g1 == GCD(Abs(a[1]), b[2])
        g2 == GCD(Abs(b[1]), a[2])
    IN  Rat((a[1] \div g1) * (b[1] \div g2), (a[2] \div g2) * (b[2] \div g1))

RInv(a) == Rat(a[2], a[1])

RDiv(a, b) == RMul(a, RInv(b))

RNeg(a) == <<-a[1], a[2]>>

\* a < b, by comparing integer parts and then the reciprocals of the
\* fractional parts (no product of a numerator and a denominator is formed)
RECURSIVE RLess(_, _)
RLess(a, b) ==
    LET qa == a[1] \div a[2]
        qb == b[1] \div b[2]
        ra == a[1] % a[2]
        rb == b[1] % b[2]
    IN  IF qa # qb THEN qa < qb
        ELSE IF rb = 0 THEN FALSE
        ELSE IF ra = 0 THEN TRUE
        ELSE RLess(<<b[2], rb>>, <<a[2], ra>>)

RLeq(a, b) == ~RLess(b, a)

(***************************************************************************)
(* Rounding to MantBits significant bits, round-half-to-even.              *)
(***************************************************************************)
RECURSIVE FNorm(_, _, _)
FNorm(n, d, e) ==
    IF n >= Pow2(MantBits) * d THEN FNorm(n, 2 * d, e + 1)
    ELSE IF n < Pow2(MantBits - 1) * d THEN FNorm(2 * n, d, e - 1)
    ELSE <<n, d, e>>

RoundF(x) ==
    IF x[1] = 0 THEN Zero
    ELSE LET t == FNorm(Abs(x[1]), x[2], 0)
             q == t[1] \div t[2]
             r == t[1] % t[2]
             m == IF 2 * r > t[2] \/ (2 * r = t[2] /\ q % 2 = 1) THEN q + 1 ELSE q
             s == IF x[1] < 0 THEN -1 ELSE 1
         IN  IF t[3] >= 0 THEN <<s * m * Pow2(t[3]), 1>>
             ELSE Rat(s * m, Pow2(-t[3]))

Fl(x) == IF arith = "float" THEN RoundF(x) ELSE x

NaN == <<0, 0>>
Inf == <<1, 0>>

IsFinite(x) == x[2] # 0

\* a + b when a or b is inf, -inf or nan
AddNonFinite(a, b) ==
    IF a = NaN \/ b = NaN THEN NaN
    ELSE IF IsFinite(a) THEN b
    ELSE IF IsFinite(b) \/ a = b THEN a
    ELSE NaN

FAdd(a, b) ==
    IF IsFinite(a) /\ IsFinite(b) THEN Fl(RAdd(a, b)) ELSE AddNonFinite(a, b)
FMul(a, b) == Fl(RMul(a, b))
FDiv(a, b) == Fl(RDiv(a, b))

(***************************************************************************)
(* An inner dict: the sequence of its <<key, value>> items in insertion    *)
(* order.                                                                  *)
(***************************************************************************)
EmptyDict == <<>>

Keys(m) == {m[i][1] : i \in 1..Len(m)}

\* m.get(k, default)
Get(m, k, default) ==
    IF k \in Keys(m) THEN m[CHOOSE i \in 1..Len(m) : m[i][1] = k][2] ELSE default

\* m[k] = v: an existing key keeps its place, a new one goes last
Put(m, k, v) ==
    IF k \in Keys(m)
    THEN [i \in 1..Len(m) |-> IF m[i][1] = k THEN <<k, v>> ELSE m[i]]
    ELSE Append(m, <<k, v>>)

\* the dict as a mapping, which is what Python's == compares
AsMap(m) == [k \in Keys(m) |-> Get(m, k, Zero)]

AsMaps(d) == [p \in DOMAIN d |-> AsMap(d[p])]

(***************************************************************************)
(* Inputs.  A PdfRecord is [period_log10, power_db, probability]; periods  *)
(* and powers are written as integers (-1 is period_log10 -1.0, -150 is    *)
(* -150 dB).                                                               *)
(***************************************************************************)
PdfRecord(period, power, prob) ==
    [period_log10 |-> period, power_db |-> power, probability |-> prob]

Tiny == <<1, Pow2(29)>>

\* records offered when arith = "real": the three of the worked example,
\* and a period with a unit bin, a bin of tiny mass, a negative mass and an
\* empty (0.0) bin
RealRecords ==
    { PdfRecord(-1, -150, <<3, 5>>), PdfRecord(-1, -150, <<2, 5>>),
      PdfRecord(-1, -140, <<1, 5>>),
      PdfRecord(0, -150, One), PdfRecord(0, -140, Tiny),
      PdfRecord(0, -140, <<-1, 1>>), PdfRecord(0, -130, Zero) }

\* records offered when arith = "float": probabilities that are floats of
\* MantBits bits
FloatRecords ==
    { PdfRecord(-1, -150, One), PdfRecord(-1, -150, <<8, 1>>),
      PdfRecord(-1, -140, <<6, 1>>), PdfRecord(-1, -130, <<8, 1>>),
      PdfRecord(0, -140, <<-1, 1>>) }

Records == IF arith = "float" THEN FloatRecords ELSE RealRecords

FileCounts == {-1, 0, 1, 2}

QueryPeriods == {-1, 0, 1}

PercentileLists ==
    { <<<<1, 2>>>>, <<One>>, <<One, <<1, 20>>, <<1, 2>>>> }

NoCall == [op |-> "init", arg |-> <<>>, err |-> "none", val |-> <<>>]

Call(op, arg, err, val) == [op |-> op, arg |-> arg, err |-> err, val |-> val]

(***************************************************************************)
(* __init__                                                                *)
(***************************************************************************)
\* a PdfDirectoryReader that accepted n files, its generator not started
NewReader(n) == [file_count |-> n, idx |-> 0, lines |-> <<>>, errors |-> 0]

\* main() is not running
NoDriver == [pc |-> "idle"]

InitWith(a) ==
    /\ sums = <<>>
    /\ probs = <<>>
    /\ history = <<>>
    /\ sealed = FALSE
    /\ ret = NoCall
    /\ arith = a
    /\ reader = NewReader(0)
    /\ driver = NoDriver

Init == InitWith("real")

InitFloat == InitWith("float")

(***************************************************************************)
(* add_record                                                              *)
(***************************************************************************)
\* faulty variant: the bin is overwritten, prev is dropped
add_record_sums_overwrite(s, record) ==
    LET period_map == IF record.period_log10 \in DOMAIN s
                      THEN s[record.period_log10] ELSE EmptyDict
    IN  (record.period_log10 :>
            Put(period_map, record.power_db, record.probability))
        @@ s

\* faulty variant: prev of a bin is read from the first bin of the period
add_record_sums_first(s, record) ==
    LET period_map == IF record.period_log10 \in DOMAIN s
                      THEN s[record.period_log10] ELSE EmptyDict
        prev == IF period_map = EmptyDict THEN Zero ELSE period_map[1][2]
    IN  (record.period_log10 :>
            Put(period_map, record.power_db, FAdd(prev, record.probability)))
        @@ s

add_record_sums(s, record) ==
    LET period_map == IF record.period_log10 \in DOMAIN s
                      THEN s[record.period_log10] ELSE EmptyDict
        prev == Get(period_map, record.power_db, Zero)
    IN  (record.period_log10 :>
            Put(period_map, record.power_db, FAdd(prev, record.probability)))
        @@ s

\* faulty variant: the running sums are published as the distribution
add_record_publishes(record) ==
    /\ Len(history) < MaxAdds
    /\ sums' = add_record_sums(sums, record)
    /\ probs' = sums'
    /\ history' = Append(history, record)
    /\ ret' = Call("add_record", record, "none", <<>>)
    /\ UNCHANGED <<sealed, arith, reader>>

add_record(record) ==
    /\ Len(history) < MaxAdds
    /\ sums' = add_record_sums(sums, record)
    /\ history' = Append(history, record)
    /\ ret' = Call("add_record", record, "none", <<>>)
    /\ UNCHANGED <<probs, sealed, arith, reader>>

(***************************************************************************)
(* finalize                                                                *)
(***************************************************************************)
\* faulty variant: 0 is let through
invalid_num_files_negative(num_files) == num_files < 0

invalid_num_files(num_files) == num_files <= 0

\* faulty variant: the sums are not divided by num_files
avg_map_of_undivided(power_map, num_files) == power_map

\* avg_map[power] = power_map[power] / float(num_files), in power_map's order
avg_map_of(power_map, num_files) ==
    [i \in 1..Len(power_map) |->
        <<power_map[i][1], FDiv(power_map[i][2], <<num_files, 1>>)>>]

\* sum(m.values()): from 0, left to right in insertion order
RECURSIVE sum_values(_, _)
sum_values(m, k) ==
    IF k = 0 THEN Zero ELSE FAdd(sum_values(m, k - 1), m[k][2])

total_prob_of(avg_map) == sum_values(avg_map, Len(avg_map))

\* faulty variant: the values are left unscaled
scale_of_unit(total_prob) == One

scale_of(total_prob) == FDiv(One, total_prob)

\* faulty variant: a period whose total is not positive is stored empty
renormalized_dropping(avg_map) ==
    LET total_prob == total_prob_of(avg_map)
    IN  IF RLess(Zero, total_prob)
        THEN [i \in 1..Len(avg_map) |->
                <<avg_map[i][1], FMul(avg_map[i][2], scale_of(total_prob))>>]
        ELSE EmptyDict

\* the renormalization of one period's avg_map
renormalized(avg_map) ==
    LET total_prob == total_prob_of(avg_map)
    IN  IF RLess(Zero, total_prob)
        THEN [i \in 1..Len(avg_map) |->
                <<avg_map[i][1], FMul(avg_map[i][2], scale_of(total_prob))>>]
        ELSE avg_map

\* self.probs after the loop over the periods of s, for num_files > 0
finalize_probs(s, p, num_files) ==
    [period \in DOMAIN p \cup DOMAIN s |->
        IF period \in DOMAIN s
        THEN renormalized(avg_map_of(s[period], num_files))
        ELSE p[period]]

\* faulty variant: the averaged and rescaled values are written into sums
finalize_in_place(num_files) ==
    /\ history' = history
    /\ arith' = arith
    /\ reader' = reader
    /\ IF invalid_num_files(num_files)
       THEN /\ ret' = Call("finalize", num_files, "ValueError", <<>>)
            /\ UNCHANGED <<sums, probs, sealed>>
       ELSE /\ probs' = finalize_probs(sums, probs, num_files)
            /\ sums' = [period \in DOMAIN sums |-> probs'[period]]
            /\ sealed' = TRUE
            /\ ret' = Call("finalize", num_files, "none", <<>>)

finalize(num_files) ==
    /\ history' = history
    /\ arith' = arith
    /\ reader' = reader
    /\ sums' = sums
    /\ IF invalid_num_files(num_files)
       THEN /\ ret' = Call("finalize", num_files, "ValueError", <<>>)
            /\ UNCHANGED <<probs, sealed>>
       ELSE IF num_files = 0 /\ DOMAIN sums # {}
       THEN \* power_map[power] / float(0) for the first bin of the first period
            /\ ret' = Call("finalize", num_files, "ZeroDivisionError", <<>>)
            /\ UNCHANGED <<probs, sealed>>
       ELSE /\ probs' = finalize_probs(sums, probs, num_files)
            /\ sealed' = TRUE
            /\ ret' = Call("finalize", num_files, "none", <<>>)

(***************************************************************************)
(* percentiles_for_period                                                  *)
(***************************************************************************)
Epsilon == <<1, 1000000000>>            \* 1e-9

\* faulty variant: the forced value falls short of 1
LastCumulativeBelow == <<9999999, 10000000>>

LastCumulative == <<10000001, 10000000>>    \* 1.0000001

\* faulty variant: descending
RECURSIVE SortedIntsDescending(_)
SortedIntsDescending(S) ==
    IF S = {} THEN <<>>
    ELSE LET hi == CHOOSE x \in S : \A y \in S : y <= x
         IN  <<hi>> \o SortedIntsDescending(S \ {hi})

\* sorted(...) of a set of integers, ascending
RECURSIVE SortedInts(_)
SortedInts(S) ==
    IF S = {} THEN <<>>
    ELSE LET lo == CHOOSE x \in S : \A y \in S : x <= y
         IN  <<lo>> \o SortedInts(S \ {lo})

\* sorted(percentiles): ascending, equal fractions kept
RECURSIVE SortedRats(_)
SortedRats(q) ==
    IF q = <<>> THEN <<>>
    ELSE LET i == CHOOSE i \in 1..Len(q) : \A j \in 1..Len(q) : RLeq(q[i], q[j])
         IN  <<q[i]>> \o SortedRats(SubSeq(q, 1, i - 1) \o SubSeq(q, i + 1, Len(q)))

\* faulty variant: no bin is discarded
valid_powers_all(power_map) == SortedInts(Keys(power_map))

\* faulty variant: the items are left in insertion order
valid_powers_unsorted(power_map) ==
    LET above(item) == RLess(Epsilon, item[2])
        kept == SelectSeq(power_map, above)
    IN  [i \in 1..Len(kept) |-> kept[i][1]]

\* the powers of the items with prb > 1e-9, sorted by power
valid_powers(power_map) ==
    SortedInts({power_map[i][1] : i \in {j \in 1..Len(power_map) :
                                            RLess(Epsilon, power_map[j][2])}})

\* faulty variant: a target equal to cumulative is not reached
RECURSIVE advance_strict(_, _, _)
advance_strict(targets, t_idx, cumulative) ==
    IF t_idx <= Len(targets) /\ RLess(targets[t_idx], cumulative)
    THEN advance_strict(targets, t_idx + 1, cumulative)
    ELSE t_idx

\* the inner while loop: the index after the targets that cumulative reaches
RECURSIVE advance(_, _, _)
advance(targets, t_idx, cumulative) ==
    IF t_idx <= Len(targets) /\ RLeq(targets[t_idx], cumulative)
    THEN advance(targets, t_idx + 1, cumulative)
    ELSE t_idx

\* faulty variant: the last item is not forced
forced_never(i, n_items, added) == added

\* cumulative after item i of n_items: the sum so far, or 1.0000001 at the
\* last item
forced(i, n_items, added) == IF i = n_items THEN LastCumulative ELSE added

\* the for loop from item i on (1-based), with t_idx targets consumed
RECURSIVE walk(_, _, _, _, _, _)
walk(power_map, items, targets, i, t_idx, cumulative) ==
    IF i > Len(items) THEN <<>>
    ELSE LET power == items[i]
             added == FAdd(cumulative, Get(power_map, power, Zero))
             cum == forced(i, Len(items), added)
             nxt == advance(targets, t_idx, cum)
         IN  walk(power_map, items, targets, i + 1, nxt, cum)
             @@ [f \in {targets[k] : k \in t_idx..(nxt - 1)} |-> power]

percentiles_of(power_map, percentiles) ==
    walk(power_map, valid_powers(power_map), SortedRats(percentiles), 1, 1, Zero)

\* `not power_map`: the period is missing from probs or maps to an empty dict
no_data(p, period) == period \notin DOMAIN p \/ p[period] = EmptyDict

\* faulty variant: a period without data is answered with an empty mapping
percentiles_for_period_lenient(period, percentiles) ==
    /\ ret' = Call("percentiles_for_period", <<period, percentiles>>, "none",
                   IF no_data(probs, period) THEN <<>>
                   ELSE percentiles_of(probs[period], percentiles))
    /\ UNCHANGED <<sums, probs, history, sealed, arith, reader>>

percentiles_for_period(period, percentiles) ==
    /\ ret' = IF no_data(probs, period)
              THEN Call("percentiles_for_period", <<period, percentiles>>,
                        "KeyError", <<>>)
              ELSE Call("percentiles_for_period", <<period, percentiles>>,
                        "none", percentiles_of(probs[period], percentiles))
    /\ UNCHANGED <<sums, probs, history, sealed, arith, reader>>

(***************************************************************************)
(* percentiles_all_periods                                                 *)
(***************************************************************************)
\* faulty variant: every period is answered from the bins of the first one
all_periods_result_first(p, periods, percentiles) ==
    [idx \in 1..Len(periods) |->
        <<periods[idx], percentiles_of(p[periods[1]], percentiles)>>]

\* result after the while loop over periods: a dict, as the sequence of its
\* <<period, mapping>> items in insertion order
all_periods_result(p, periods, percentiles) ==
    [idx \in 1..Len(periods) |->
        <<periods[idx], percentiles_of(p[periods[idx]], percentiles)>>]

percentiles_all_periods(percentiles) ==
    /\ ret' = IF \E period \in DOMAIN probs : no_data(probs, period)
              THEN Call("percentiles_all_periods", percentiles, "KeyError", <<>>)
              ELSE Call("percentiles_all_periods", percentiles, "none",
                        all_periods_result(probs, SortedInts(DOMAIN probs),
                                           percentiles))
    /\ UNCHANGED <<sums, probs, history, sealed, arith, reader>>

(***************************************************************************)
(* The calls a client can make, in any order.                              *)
(***************************************************************************)
Next ==
    \/ \E record \in Records : add_record(record) /\ UNCHANGED driver
    \/ \E num_files \in FileCounts : finalize(num_files) /\ UNCHANGED driver
    \/ \E period \in QueryPeriods, percentiles \in PercentileLists :
          percentiles_for_period(period, percentiles) /\ UNCHANGED driver
    \/ \E percentiles \in PercentileLists :
          percentiles_all_periods(percentiles) /\ UNCHANGED driver

\* one instance computing with exact arithmetic
Spec == Init /\ [][Next]_vars

\* one instance computing with rounding arithmetic: for the properties that
\* compare the results of two different sequences of float operations
SpecFloat == InitFloat /\ [][Next]_vars

(***************************************************************************)
(* DefaultLineParser.parse.  A line is the sequence of its characters.     *)
(* float() is modelled on the tokens [sign] digits [. [digits]],           *)
(* [sign] . digits, [sign] nan and [sign] inf; any other token is taken to *)
(* raise ValueError (exponents, underscores and the spellings infinity and *)
(* NAN, which Python accepts too, are not among the lines offered).        *)
(***************************************************************************)
Whitespace == {" ", "\t", "\n", "\r"}

\* line.split() from character i on, word being the token under way
RECURSIVE split_from(_, _, _)
split_from(line, i, word) ==
    LET done == IF word = <<>> THEN <<>> ELSE <<word>>
    IN  IF i > Len(line) THEN done
        ELSE IF line[i] \in Whitespace
        THEN done \o split_from(line, i + 1, <<>>)
        ELSE split_from(line, i + 1, Append(word, line[i]))

split(line) == split_from(line, 1, <<>>)

DigitChars == <<"0", "1", "2", "3", "4", "5", "6", "7", "8", "9">>

IsDigit(c) == \E d \in DOMAIN DigitChars : DigitChars[d] = c

DigitValue(c) == (CHOOSE d \in DOMAIN DigitChars : DigitChars[d] = c) - 1

RECURSIVE Pow10(_)
Pow10(k) == IF k = 0 THEN 1 ELSE 10 * Pow10(k - 1)

\* the number written by the first k of the digits
RECURSIVE DigitsValue(_, _)
DigitsValue(digits, k) ==
    IF k = 0 THEN 0 ELSE 10 * DigitsValue(digits, k - 1) + DigitValue(digits[k])

Unsigned(tok) ==
    IF tok # <<>> /\ tok[1] \in {"+", "-"} THEN Tail(tok) ELSE tok

SignOf(tok) == IF tok # <<>> /\ tok[1] = "-" THEN -1 ELSE 1

Dots(body) == {i \in 1..Len(body) : body[i] = "."}

IsDecimal(body) ==
    /\ Cardinality(Dots(body)) <= 1
    /\ \A i \in (1..Len(body)) \ Dots(body) : IsDigit(body[i])
    /\ \E i \in 1..Len(body) : IsDigit(body[i])

\* float(tok) raises ValueError
float_raises(tok) ==
    /\ Unsigned(tok) \notin {<<"n", "a", "n">>, <<"i", "n", "f">>}
    /\ ~IsDecimal(Unsigned(tok))

\* float(tok), for a token it accepts
float(tok) ==
    LET body == Unsigned(tok)
        digits == SelectSeq(body, IsDigit)
        decimals == IF Dots(body) = {} THEN 0
                    ELSE Len(body) - (CHOOSE i \in Dots(body) : TRUE)
    IN  IF body = <<"n", "a", "n">> THEN NaN
        ELSE IF body = <<"i", "n", "f">> THEN <<SignOf(tok), 0>>
        ELSE Rat(SignOf(tok) * DigitsValue(digits, Len(digits)), Pow10(decimals))

\* faulty variant: a missing or non-numeric token is read as 0.0
parse_lenient(line) ==
    LET parts == split(line)
        field(k) == IF k > Len(parts) \/ float_raises(parts[k]) THEN Zero
                    ELSE float(parts[k])
    IN  <<PdfRecord(field(1), field(2), field(3))>>

\* parse(line): <<record>>, or <<>> for None
parse(line) ==
    LET parts == split(line)
    IN  IF Len(parts) < 3 THEN <<>>
        ELSE IF \E k \in 1..3 : float_raises(parts[k]) THEN <<>>
        ELSE <<PdfRecord(float(parts[1]), float(parts[2]), float(parts[3]))>>

(***************************************************************************)
(* The lines a file can hold, as the file iterator hands them over         *)
(* (newline included).  Periods and powers are finite in all of them.      *)
(***************************************************************************)
\* -1 -150 0.6\n: a sample
LineSample ==
    <<"-", "1", " ", "-", "1", "5", "0", " ", "0", ".", "6", "\n">>

\* 0 -140 -1\n: a sample with a negative probability
LineNegative ==
    <<"0", " ", "-", "1", "4", "0", " ", "-", "1", "\n">>

\* -1\t-140  .25 x\n: a sample followed by a fourth token
LineExtra ==
    <<"-", "1", "\t", "-", "1", "4", "0", " ", " ", ".", "2", "5", " ",
      "x", "\n">>

\* -1 -150 nan\n: three tokens that float() accepts, the third nan
LineNan ==
    <<"-", "1", " ", "-", "1", "5", "0", " ", "n", "a", "n", "\n">>

\* -1 -150 -inf\n: three tokens that float() accepts, the third -inf
LineInf ==
    <<"-", "1", " ", "-", "1", "5", "0", " ", "-", "i", "n", "f", "\n">>

\* -1 -150\n: two tokens
LineShort ==
    <<"-", "1", " ", "-", "1", "5", "0", "\n">>

\* -1 abc 0.5\n: a token that is no number
LineWord ==
    <<"-", "1", " ", "a", "b", "c", " ", "0", ".", "5", "\n">>

\* \n: no token
LineBlank ==
    <<"\n">>

Lines ==
    { LineSample, LineNegative, LineExtra, LineNan, LineInf,
      LineShort, LineWord, LineBlank }

(***************************************************************************)
(* PdfDirectoryReader.iter_records, consumed by the loop of main() that    *)
(* passes every yielded record to add_record.                              *)
(***************************************************************************)
\* The aggregator's definitions write the float -150.0 as the integer -150
\* where it is a period or a power; parse writes it <<-150, 1>>.  Both are
\* the same Python float: AsKey passes from the second notation to the first.
AsKey(x) == IF x[2] = 1 THEN x[1] ELSE x

Keyed(record) ==
    PdfRecord(AsKey(record.period_log10), AsKey(record.power_db),
              record.probability)

\* one turn of `for raw in handle`, with the loop body of main() when a
\* record is yielded
iter_records_line(raw) ==
    /\ reader.idx < reader.file_count
    /\ Len(reader.lines) < MaxLines
    /\ LET rec == parse(raw)
       IN  /\ ret' = Call("parse", raw, "none", rec)
           /\ IF rec # <<>>
              THEN /\ sums' = add_record_sums(sums, Keyed(rec[1]))
                   /\ history' = Append(history, Keyed(rec[1]))
              ELSE UNCHANGED <<sums, history>>
    /\ reader' = [reader EXCEPT !.lines = Append(@, raw)]
    /\ UNCHANGED <<probs, sealed, arith>>

\* the file is exhausted: idx += 1
iter_records_eof ==
    /\ reader.idx < reader.file_count
    /\ reader' = [reader EXCEPT !.idx = @ + 1]
    /\ ret' = Call("iter_records", reader.idx, "none", <<>>)
    /\ UNCHANGED <<sums, probs, history, sealed, arith>>

\* open() or a read raises OSError: it is caught and printed, idx += 1
iter_records_oserror ==
    /\ reader.idx < reader.file_count
    /\ reader' = [reader EXCEPT !.idx = @ + 1, !.errors = @ + 1]
    /\ ret' = Call("iter_records", reader.idx, "OSError", <<>>)
    /\ UNCHANGED <<sums, probs, history, sealed, arith>>

InitReader ==
    /\ sums = <<>>
    /\ probs = <<>>
    /\ history = <<>>
    /\ sealed = FALSE
    /\ ret = NoCall
    /\ arith = "real"
    /\ reader \in {NewReader(n) : n \in 0..MaxFiles}
    /\ driver = NoDriver

NextReader ==
    \/ \E raw \in Lines : iter_records_line(raw) /\ UNCHANGED driver
    \/ iter_records_eof /\ UNCHANGED driver
    \/ iter_records_oserror /\ UNCHANGED driver

\* one reader feeding a fresh instance
SpecReader == InitReader /\ [][NextReader]_vars

(***************************************************************************)
(* main(): for every station and every component one aggregator, fed from  *)
(* the directory of every year of the range, finalized, queried and        *)
(* written.  File names are sequences of characters, as lines are.         *)
(***************************************************************************)
\* args.stations and args.components
Stations == <<"AAA", "BBB">>

Components == <<"HHZ">>

\* args.percentiles
DriverPercentiles == <<<<1, 2>>, One>>

\* args.start_year, args.start_day, args.end_year, args.end_day: a range of
\* three years and a range within one year
DriverArgs ==
    { [start_year |-> 2024, start_day |-> 200, end_year |-> 2026, end_day |-> 100],
      [start_year |-> 2025, start_day |-> 5, end_year |-> 2025, end_day |-> 200] }

\* PDFanalysis.2024.199.pdf
Name2024d199 ==
    <<"P", "D", "F", "a", "n", "a", "l", "y", "s", "i", "s", ".", "2", "0",
      "2", "4", ".", "1", "9", "9", ".", "p", "d", "f">>

\* PDFanalysis.2024.200.pdf
Name2024d200 ==
    <<"P", "D", "F", "a", "n", "a", "l", "y", "s", "i", "s", ".", "2", "0",
      "2", "4", ".", "2", "0", "0", ".", "p", "d", "f">>

\* PDFanalysis.2025.005.pdf
Name2025d005 ==
    <<"P", "D", "F", "a", "n", "a", "l", "y", "s", "i", "s", ".", "2", "0",
      "2", "5", ".", "0", "0", "5", ".", "p", "d", "f">>

\* PDFanalysis.2025.201.pdf
Name2025d201 ==
    <<"P", "D", "F", "a", "n", "a", "l", "y", "s", "i", "s", ".", "2", "0",
      "2", "5", ".", "2", "0", "1", ".", "p", "d", "f">>

\* PDFanalysis.2025.367.pdf
Name2025d367 ==
    <<"P", "D", "F", "a", "n", "a", "l", "y", "s", "i", "s", ".", "2", "0",
      "2", "5", ".", "3", "6", "7", ".", "p", "d", "f">>

\* PDFanalysis.2025.abc.pdf
Name2025word ==
    <<"P", "D", "F", "a", "n", "a", "l", "y", "s", "i", "s", ".", "2", "0",
      "2", "5", ".", "a", "b", "c", ".", "p", "d", "f">>

\* PDFanalysis.2026.100.pdf
Name2026d100 ==
    <<"P", "D", "F", "a", "n", "a", "l", "y", "s", "i", "s", ".", "2", "0",
      "2", "6", ".", "1", "0", "0", ".", "p", "d", "f">>

\* PDFanalysis.2026.101.pdf
Name2026d101 ==
    <<"P", "D", "F", "a", "n", "a", "l", "y", "s", "i", "s", ".", "2", "0",
      "2", "6", ".", "1", "0", "1", ".", "p", "d", "f">>

\* PDFanalysis.summary.pdf
NameSummary ==
    <<"P", "D", "F", "a", "n", "a", "l", "y", "s", "i", "s", ".", "s", "u",
      "m", "m", "a", "r", "y", ".", "p", "d", "f">>

\* sorted(): the names a directory can hold, in the order of their text
SortedNames ==
    <<Name2024d199, Name2024d200, Name2025d005, Name2025d201, Name2025d367,
      Name2025word, Name2026d100, Name2026d101, NameSummary>>

\* self.root.glob("PDFanalysis.*.pdf") of the directories offered
Listings ==
    { {Name2024d199, Name2024d200},
      {Name2025d005, Name2025d201, Name2025word},
      {Name2025d367, Name2026d100},
      {Name2026d101, NameSummary} }

\* zero probability in a period of its own: 0 -130 0\n
LineZero ==
    <<"0", " ", "-", "1", "3", "0", " ", "0", "\n">>

\* the lines a file of the driver's directories can hold
DriverLines == {LineSample, LineZero, LineShort}

\* name.split(".")
RECURSIVE split_dots_from(_, _, _)
split_dots_from(name, i, part) ==
    IF i > Len(name) THEN <<part>>
    ELSE IF name[i] = "." THEN <<part>> \o split_dots_from(name, i + 1, <<>>)
    ELSE split_dots_from(name, i + 1, Append(part, name[i]))

split_dots(name) == split_dots_from(name, 1, <<>>)

\* int(tok) raises ValueError
int_raises(tok) ==
    \/ Unsigned(tok) = <<>>
    \/ \E i \in 1..Len(Unsigned(tok)) : ~IsDigit(Unsigned(tok)[i])

\* int(tok), for a token it accepts
int(tok) == SignOf(tok) * DigitsValue(Unsigned(tok), Len(Unsigned(tok)))

\* _accept_file, called with a year and both days
accept_file(name, year, start_day, end_day) ==
    LET parts == split_dots(name)
    IN  IF Len(parts) < 4 THEN FALSE
        ELSE IF int_raises(parts[2]) \/ int_raises(parts[3]) THEN FALSE
        ELSE IF int(parts[2]) # year THEN FALSE
        ELSE IF int(parts[3]) < start_day THEN FALSE
        ELSE IF int(parts[3]) > end_day THEN FALSE
        ELSE TRUE

\* self._files: the sorted names of the directory that _accept_file accepts
reader_files(listing, year, start_day, end_day) ==
    SelectSeq(SelectSeq(SortedNames, LAMBDA name : name \in listing),
              LAMBDA name : accept_file(name, year, start_day, end_day))

\* faulty variant: the first day bounds every year
curr_min_day_every_year(args, current_year) == args.start_day

curr_min_day(args, current_year) ==
    IF current_year = args.start_year THEN args.start_day ELSE 1

curr_max_day(args, current_year) ==
    IF current_year = args.end_year THEN args.end_day ELSE 366

\* main() at the top of its station loop
StartDriver(args) ==
    [pc |-> "station", args |-> args, s_idx |-> 0, c_idx |-> 0,
     current_year |-> args.start_year, total_files_processed |-> 0,
     files |-> <<>>, per_period |-> <<>>, written |-> <<>>,
     \* what the unit was given so far: the directories opened and the
     \* records of the years that are over
     seen |-> <<>>, prior |-> <<>>]

\* the station and component main() is working on
Unit(d) == <<Stations[d.s_idx + 1], Components[d.c_idx + 1]>>

\* the records parse yields from the lines, as main() hands them on
RECURSIVE records_of(_)
records_of(lines) ==
    IF lines = <<>> THEN <<>>
    ELSE LET rec == parse(Head(lines))
         IN  (IF rec = <<>> THEN <<>> ELSE <<Keyed(rec[1])>>)
             \o records_of(Tail(lines))

\* station_out_dir.mkdir(parents=True, exist_ok=True)
station_mkdir ==
    /\ driver.pc = "station"
    /\ driver.s_idx < Len(Stations)
    /\ driver' = [driver EXCEPT !.pc = "component", !.c_idx = 0]
    /\ UNCHANGED <<sums, probs, history, sealed, ret, arith, reader>>

\* mkdir raises OSError: printed, and the station is left out
station_mkdir_oserror ==
    /\ driver.pc = "station"
    /\ driver.s_idx < Len(Stations)
    /\ driver' = [driver EXCEPT !.s_idx = @ + 1]
    /\ ret' = Call("mkdir", Stations[driver.s_idx + 1], "OSError", <<>>)
    /\ UNCHANGED <<sums, probs, history, sealed, arith, reader>>

\* the component loop of the station is over: s_idx += 1
station_done ==
    /\ driver.pc = "component"
    /\ driver.c_idx = Len(Components)
    /\ driver' = [driver EXCEPT !.pc = "station", !.s_idx = @ + 1]
    /\ UNCHANGED <<sums, probs, history, sealed, ret, arith, reader>>

\* faulty variant: every unit feeds the aggregator of the unit before it
component_begin_shared ==
    /\ driver.pc = "component"
    /\ driver.c_idx < Len(Components)
    /\ ret' = Call("__init__", Unit(driver), "none", <<>>)
    /\ driver' = [driver EXCEPT !.pc = "year",
                                !.total_files_processed = 0,
                                !.current_year = driver.args.start_year,
                                !.seen = <<>>,
                                !.prior = <<>>]
    /\ UNCHANGED <<sums, probs, history, sealed, arith, reader>>

\* aggregator = PeriodPowerAggregator(); total_files_processed = 0;
\* current_year = args.start_year
component_begin ==
    /\ driver.pc = "component"
    /\ driver.c_idx < Len(Components)
    /\ sums' = <<>>
    /\ probs' = <<>>
    /\ history' = <<>>
    /\ sealed' = FALSE
    /\ ret' = Call("__init__", Unit(driver), "none", <<>>)
    /\ driver' = [driver EXCEPT !.pc = "year",
                                !.total_files_processed = 0,
                                !.current_year = driver.args.start_year,
                                !.seen = <<>>,
                                !.prior = <<>>]
    /\ UNCHANGED <<arith, reader>>

\* resolver.resolve raises FileNotFoundError: current_year += 1
year_missing ==
    /\ driver.pc = "year"
    /\ driver.current_year <= driver.args.end_year
    /\ ret' = Call("resolve", driver.current_year, "FileNotFoundError", <<>>)
    /\ driver' = [driver EXCEPT !.current_year = @ + 1]
    /\ UNCHANGED <<sums, probs, history, sealed, arith, reader>>

\* reader = PdfDirectoryReader(station_dir, year, start_day, end_day) on a
\* directory that holds the names of listing; without accepted files the
\* year is over
year_open(listing) ==
    /\ driver.pc = "year"
    /\ driver.current_year <= driver.args.end_year
    /\ LET files == reader_files(listing, driver.current_year,
                                 curr_min_day(driver.args, driver.current_year),
                                 curr_max_day(driver.args, driver.current_year))
       IN  /\ reader' = NewReader(Len(files))
           /\ ret' = Call("PdfDirectoryReader",
                          <<driver.current_year, listing>>, "none", files)
           /\ driver' =
                 IF Len(files) > 0
                 THEN [driver EXCEPT
                          !.pc = "reading", !.files = files,
                          !.seen = Append(@, <<driver.current_year, listing>>)]
                 ELSE [driver EXCEPT
                          !.files = files, !.current_year = @ + 1,
                          !.seen = Append(@, <<driver.current_year, listing>>)]
    /\ UNCHANGED <<sums, probs, history, sealed, arith>>

\* a read meets bytes that are no text: UnicodeDecodeError is no OSError,
\* neither iter_records nor main() catches it
iter_records_decode_error ==
    /\ driver.pc = "reading"
    /\ reader.idx < reader.file_count
    /\ ret' = Call("iter_records", reader.idx, "UnicodeDecodeError", <<>>)
    /\ driver' = [driver EXCEPT !.pc = "aborted"]
    /\ UNCHANGED <<sums, probs, history, sealed, arith, reader>>

\* the generator is exhausted: total_files_processed += reader.file_count;
\* current_year += 1.  Nothing reads the reader after that: it is written
\* as a reader without files until the next one is made
year_done ==
    /\ driver.pc = "reading"
    /\ reader.idx = reader.file_count
    /\ driver' = [driver EXCEPT !.pc = "year",
                                !.total_files_processed = @ + reader.file_count,
                                !.current_year = @ + 1,
                                !.files = <<>>,
                                !.prior = @ \o records_of(reader.lines)]
    /\ reader' = NewReader(0)
    /\ UNCHANGED <<sums, probs, history, sealed, ret, arith>>

\* faulty variant: a unit without files is finalized like any other
no_files_never(total_files_processed) == FALSE

\* total_files_processed == 0
no_files(total_files_processed) == total_files_processed = 0

\* the year loop is over without a file: a warning, c_idx += 1
component_no_files ==
    /\ driver.pc = "year"
    /\ driver.current_year > driver.args.end_year
    /\ no_files(driver.total_files_processed)
    /\ driver' = [driver EXCEPT !.pc = "component", !.c_idx = @ + 1]
    /\ UNCHANGED <<sums, probs, history, sealed, ret, arith, reader>>

\* aggregator.finalize(total_files_processed); what it raises ends main()
main_finalize ==
    /\ driver.pc = "year"
    /\ driver.current_year > driver.args.end_year
    /\ ~no_files(driver.total_files_processed)
    /\ finalize(driver.total_files_processed)
    /\ driver' = [driver EXCEPT !.pc = IF ret'.err = "none" THEN "query"
                                      ELSE "aborted"]

\* per_period = aggregator.percentiles_all_periods(args.percentiles)
main_percentiles ==
    /\ driver.pc = "query"
    /\ percentiles_all_periods(DriverPercentiles)
    /\ driver' = IF ret'.err = "none"
                 THEN [driver EXCEPT !.pc = "render", !.per_period = ret'.val]
                 ELSE [driver EXCEPT !.pc = "aborted"]

\* viz.render(args.percentiles, plot_limits) as far as
\* _plot_percentile_lines, which queries the aggregator again; whatever
\* is raised is caught and printed
render ==
    /\ driver.pc = "render"
    /\ percentiles_all_periods(DriverPercentiles)
    /\ driver' = [driver EXCEPT !.pc = "write"]

\* render raises before it queries the aggregator: caught and printed
render_fails ==
    /\ driver.pc = "render"
    /\ ret' = Call("render", DriverPercentiles, "Exception", <<>>)
    /\ driver' = [driver EXCEPT !.pc = "write"]
    /\ UNCHANGED <<sums, probs, history, sealed, arith, reader>>

\* round(x) of a fraction that is not negative: to the nearest integer, a
\* tie to the even one
round(x) ==
    LET twice == 2 * x[1] + x[2]
        up == twice \div (2 * x[2])
    IN  IF twice % (2 * x[2]) = 0 /\ up % 2 = 1 THEN up - 1 ELSE up

\* f"{x:.{places}f}" of a float that is an integer: the decimal with that
\* many zeros after the point, written as the integer it is a multiple of
format_fixed(x, places) == [scaled |-> x * Pow10(places), places |-> places]

\* f"{float('nan'):.3f}"
NanText == [text |-> "nan"]

\* str(n) of an integer that is not negative
RECURSIVE str(_)
str(n) ==
    IF n < 10 THEN <<DigitChars[n + 1]>>
    ELSE str(n \div 10) \o <<DigitChars[(n % 10) + 1]>>

\* total_files: int = 0
DefaultTotalFiles == 0

\* faulty variant: a fraction the mapping lacks is written as 0.000
csv_cell_zero(pct_map, pct) ==
    IF pct \in DOMAIN pct_map THEN format_fixed(pct_map[pct], 3)
    ELSE format_fixed(0, 3)

\* f"{pct_map.get(pct, float('nan')):.3f}"
csv_cell(pct_map, pct) ==
    IF pct \in DOMAIN pct_map THEN format_fixed(pct_map[pct], 3) ELSE NanText

\* the header row
csv_header(percentiles) ==
    <<"period_log10">>
    \o [k \in 1..Len(percentiles) |->
           [p |-> round(RMul(percentiles[k], <<100, 1>>))]]
    \o <<"total_files">>

\* the row of one period
csv_row(period, pct_map, percentiles, total_files) ==
    <<format_fixed(period, 6)>>
    \o [k \in 1..Len(percentiles) |-> csv_cell(pct_map, percentiles[k])]
    \o <<str(total_files)>>

\* the rows write_percentiles_csv hands to the csv writer
csv_rows(per_period, percentiles, total_files) ==
    LET periods == SortedInts(Keys(per_period))
    IN  [i \in 1..Len(periods) |->
            csv_row(periods[i], Get(per_period, periods[i], <<>>),
                    percentiles, total_files)]

\* write_percentiles_csv(out_path, per_period, args.percentiles): main()
\* passes no total_files; then c_idx += 1
main_write ==
    /\ driver.pc = "write"
    /\ ret' = Call("write_percentiles_csv",
                   <<driver.per_period, DriverPercentiles>>, "none",
                   [header |-> csv_header(DriverPercentiles),
                    rows |-> csv_rows(driver.per_period, DriverPercentiles,
                                      DefaultTotalFiles)])
    /\ driver' = [driver EXCEPT !.pc = "component", !.c_idx = @ + 1,
                                !.written = Append(@, Unit(driver))]
    /\ UNCHANGED <<sums, probs, history, sealed, arith, reader>>

\* open() or a write raises OSError: caught and printed; then c_idx += 1
main_write_oserror ==
    /\ driver.pc = "write"
    /\ ret' = Call("write_percentiles_csv",
                   <<driver.per_period, DriverPercentiles>>, "OSError", <<>>)
    /\ driver' = [driver EXCEPT !.pc = "component", !.c_idx = @ + 1]
    /\ UNCHANGED <<sums, probs, history, sealed, arith, reader>>

InitDriver ==
    /\ sums = <<>>
    /\ probs = <<>>
    /\ history = <<>>
    /\ sealed = FALSE
    /\ ret = NoCall
    /\ arith = "real"
    /\ reader = NewReader(0)
    /\ driver \in {StartDriver(args) : args \in DriverArgs}

NextDriver ==
    \/ station_mkdir
    \/ station_mkdir_oserror
    \/ station_done
    \/ component_begin
    \/ year_missing
    \/ \E listing \in Listings : year_open(listing)
    \/ \E raw \in DriverLines :
          /\ driver.pc = "reading"
          /\ Len(history) < MaxAdds
          /\ Len(reader.lines) < MaxYearLines
          /\ iter_records_line(raw)
          /\ UNCHANGED driver
    \/ driver.pc = "reading" /\ iter_records_eof /\ UNCHANGED driver
    \/ driver.pc = "reading" /\ iter_records_oserror /\ UNCHANGED driver
    \/ iter_records_decode_error
    \/ year_done
    \/ component_no_files
    \/ main_finalize
    \/ main_percentiles
    \/ render
    \/ render_fails
    \/ main_write
    \/ main_write_oserror

\* main() from its first station to its return or to the exception that
\* ends it
SpecDriver == InitDriver /\ [][NextDriver]_vars

(***************************************************************************)
(* Helpers of the properties.                                              *)
(***************************************************************************)
RAbs(a) == <<Abs(a[1]), a[2]>>

Within(a, b, tol) == RLeq(RAbs(RAdd(a, RNeg(b))), tol)

Returned(op) == ret.op = op /\ ret.err = "none"

\* the exact sum of f over the finite set S
RECURSIVE SumOver(_, _)
SumOver(S, f) ==
    IF S = {} THEN Zero
    ELSE LET x == CHOOSE x \in S : TRUE IN RAdd(f[x], SumOver(S \ {x}, f))

MaxOf(S) == CHOOSE x \in S : \A y \in S : y <= x
MinOf(S) == CHOOSE x \in S : \A y \in S : x <= y

\* the bins of a finalized period with probability above 1e-9
ValidBins(power_map) ==
    {w \in Keys(power_map) : RLess(Epsilon, Get(power_map, w, Zero))}

\* the exact mass of the valid bins with power <= w
MassUpTo(power_map, w) ==
    SumOver({v \in ValidBins(power_map) : v <= w}, AsMap(power_map))

(***************************************************************************)
(* C1.  After a successful finalize(n), n > 0, every period whose averaged *)
(* total over its power bins is positive has values in probs that sum to 1 *)
(* within 1e-6.                                                            *)
(***************************************************************************)
C1_Tolerance == <<1, 1000000>>

C1_PositiveTotal(period) ==
    RLess(Zero, total_prob_of(avg_map_of(sums[period], ret.arg)))

C2_Cumulative(power_map, w) ==
    IF w = MaxOf(ValidBins(power_map)) THEN LastCumulative
    ELSE MassUpTo(power_map, w)

C2_Reaching(power_map, f) ==
    {w \in ValidBins(power_map) : RLeq(f, C2_Cumulative(power_map, w))}

C2_FirstPowerReachingFraction ==
    Returned("percentiles_for_period") =>
        LET power_map == probs[ret.arg[1]]
            requested == {ret.arg[2][k] : k \in 1..Len(ret.arg[2])}
        IN  /\ DOMAIN ret.val \subseteq requested
            /\ \A f \in requested :
                  IF C2_Reaching(power_map, f) = {}
                  THEN f \notin DOMAIN ret.val
                  ELSE /\ f \in DOMAIN ret.val
                       /\ ret.val[f] = MinOf(C2_Reaching(power_map, f))

\* a query on a period with a discarded bin and two valid ones, answered
\* with the lower valid power for one fraction and the higher for another
C2_Witness ==
    /\ Returned("percentiles_for_period")
    /\ LET power_map == probs[ret.arg[1]]
       IN  /\ Cardinality(ValidBins(power_map)) >= 2
           /\ ValidBins(power_map) # Keys(power_map)
           /\ \E f, g \in DOMAIN ret.val :
                 /\ ret.val[f] = MinOf(ValidBins(power_map))
                 /\ ret.val[g] = MaxOf(ValidBins(power_map))

(***************************************************************************)
(* C4.  Within the result of one percentiles_for_period call, a larger     *)
(* fraction is never assigned a lower power than a smaller fraction.       *)
(***************************************************************************)
C4_PercentilesMonotone ==
    Returned("percentiles_for_period") =>
        \A f1, f2 \in DOMAIN ret.val :
            RLeq(f1, f2) => ret.val[f1] <= ret.val[f2]

\* a result in which two fractions got different powers
C4_Witness ==
    /\ Returned("percentiles_for_period")
    /\ \E f1, f2 \in DOMAIN ret.val :
          RLess(f1, f2) /\ ret.val[f1] < ret.val[f2]

C6_InvalidFinalizeRejected ==
    [][(ret'.op = "finalize" /\ ret'.arg <= 0) =>
          (ret'.err = "ValueError" /\ sums' = sums /\ probs' = probs)]_vars

\* finalize(0) or finalize(-1) rejected on an instance that holds sums and
\* a finalized distribution
C6_Witness ==
    /\ ret.op = "finalize"
    /\ ret.arg <= 0
    /\ ret.err = "ValueError"
    /\ sums # <<>>
    /\ probs # <<>>

(***************************************************************************)
(* A second aggregator: self.sums of a fresh instance after add_record of  *)
(* the first k records of h, and the orders in which the records of h can  *)
(* be fed.                                                                 *)
(***************************************************************************)
RECURSIVE Replay(_, _)
Replay(h, k) == IF k = 0 THEN <<>> ELSE add_record_sums(Replay(h, k - 1), h[k])

SumsAfter(h) == Replay(h, Len(h))

Orders(h) ==
    {[i \in 1..Len(h) |-> h[pi[i]]] : pi \in Permutations(1..Len(h))}

\* how many records of history went to the bin (period, power)
BinCount(period, power) ==
    Cardinality({i \in 1..Len(history) :
                    /\ history[i].period_log10 = period
                    /\ history[i].power_db = power})

(***************************************************************************)
(* C3.  As claimed: two aggregators fed the same multiset of samples in    *)
(* any two orders hold identical sums mappings.  (Refuted under float      *)
(* addition, which rounds each partial sum: 8 + 1 + 1 and 1 + 1 + 8 differ *)
(* at 3 significant bits as 0.6 + 0.4 + 0.2 and 0.4 + 0.2 + 0.6 differ at  *)
(* 53.)                                                                    *)
(***************************************************************************)
C3_Original ==
    \A h \in Orders(history) : AsMaps(SumsAfter(h)) = AsMaps(sums)

(***************************************************************************)
(* C3, amended.  Two aggregators fed the same multiset of samples in any   *)
(* two orders hold sums mappings with the same (period, power) keys, and   *)
(* the same value in every bin that received at most two samples.          *)
(***************************************************************************)
C3_Amended ==
    \A h \in Orders(history) :
        LET other == SumsAfter(h)
        IN  /\ DOMAIN other = DOMAIN sums
            /\ \A period \in DOMAIN sums :
                  /\ Keys(other[period]) = Keys(sums[period])
                  /\ \A power \in Keys(sums[period]) :
                        BinCount(period, power) <= 2 =>
                            Get(other[period], power, Zero)
                                = Get(sums[period], power, Zero)

\* two records of different probability went to one bin, and a record to
\* another period
C3_Witness ==
    /\ \E i, j \in 1..Len(history) :
          /\ i < j
          /\ history[i].period_log10 = history[j].period_log10
          /\ history[i].power_db = history[j].power_db
          /\ history[i].probability # history[j].probability
          /\ BinCount(history[i].period_log10, history[i].power_db) = 2
    /\ Cardinality(DOMAIN sums) = 2

(***************************************************************************)
(* C7.  Feeding the same records with every probability doubled and        *)
(* calling finalize(2n) gives the same probs mapping as feeding the        *)
(* records and calling finalize(n), n > 0.                                 *)
(***************************************************************************)
C7_Doubled(h) ==
    [i \in 1..Len(h) |->
        [h[i] EXCEPT !.probability = RMul(<<2, 1>>, h[i].probability)]]

C7_ScaleInvariant ==
    Returned("finalize") =>
        AsMaps(finalize_probs(SumsAfter(C7_Doubled(history)), <<>>, 2 * ret.arg))
            = AsMaps(probs)

\* finalize(2) returned on an instance with a renormalized period of two
\* bins and a period that was not renormalized
C7_Witness ==
    /\ Returned("finalize")
    /\ ret.arg = 2
    /\ \E period \in DOMAIN sums :
          /\ Len(sums[period]) = 2
          /\ RLess(Zero, total_prob_of(avg_map_of(sums[period], 2)))
    /\ \E period \in DOMAIN sums :
          /\ RLess(total_prob_of(avg_map_of(sums[period], 2)), Zero)

(***************************************************************************)
(* C8.  The worked example: after add_record of (-1.0, -150, 0.6),         *)
(* (-1.0, -150, 0.4), (-1.0, -140, 0.2), finalize(2) averages to           *)
(* {-150: 0.5, -140: 0.1} and leaves probs {-1.0: {-150: 5/6, -140: 1/6}}; *)
(* on that distribution percentiles_for_period(-1.0, [0.5]) returns -150   *)
(* and percentiles_for_period(-1.0, [1.0]) returns -140.                   *)
(***************************************************************************)
C8_Records ==
    << PdfRecord(-1, -150, <<3, 5>>), PdfRecord(-1, -150, <<2, 5>>),
       PdfRecord(-1, -140, <<1, 5>>) >>

C8_Averaged == (-150 :> <<1, 2>>) @@ (-140 :> <<1, 10>>)

C8_Probs == (-1 :> ((-150 :> <<5, 6>>) @@ (-140 :> <<1, 6>>)))

C8_Example ==
    history = C8_Records =>
        /\ (Returned("finalize") /\ ret.arg = 2) =>
              /\ AsMap(avg_map_of(sums[-1], 2)) = C8_Averaged
              /\ AsMaps(probs) = C8_Probs
        /\ (AsMaps(probs) = C8_Probs /\ ret.op = "percentiles_for_period") =>
              /\ ret.arg = <<-1, <<<<1, 2>>>>>> =>
                    ret.err = "none" /\ ret.val = (<<1, 2>> :> -150)
              /\ ret.arg = <<-1, <<One>>>> =>
                    ret.err = "none" /\ ret.val = (One :> -140)

\* the example's records added and finalized, and the query [1.0] answered
C8_Witness ==
    /\ history = C8_Records
    /\ AsMaps(probs) = C8_Probs
    /\ Returned("percentiles_for_period")
    /\ ret.arg = <<-1, <<One>>>>
    /\ ret.val = (One :> -140)

(***************************************************************************)
(* C9.  As claimed: once finalize has succeeded, every further add_record  *)
(* call and every further finalize call on the instance is rejected with   *)
(* an error.                                                               *)
(***************************************************************************)
C9_SealedRejectsCalls ==
    [][(sealed /\ ret'.op \in {"add_record", "finalize"}) =>
          ret'.err # "none"]_vars

(***************************************************************************)
(* C10.  As claimed: after the first successful finalize no call changes   *)
(* the probs mapping.                                                      *)
(***************************************************************************)
C10_ProbsImmutableOnceFinalized ==
    [][sealed => probs' = probs]_vars

(***************************************************************************)
(* C11.  On an instance where no finalize has succeeded, whatever records  *)
(* were added, percentiles_for_period raises KeyError for every period and *)
(* percentiles_all_periods returns a mapping without entries.              *)
(***************************************************************************)
C11_NoAnswerBeforeFinalize ==
    ~sealed =>
        /\ ret.op = "percentiles_for_period" =>
              ret.err = "KeyError" /\ ret.val = <<>>
        /\ ret.op = "percentiles_all_periods" =>
              ret.err = "none" /\ ret.val = <<>>

\* a query for a period that holds sums, refused before any finalize
C11_Witness ==
    /\ ~sealed
    /\ ret.op = "percentiles_for_period"
    /\ ret.arg[1] \in DOMAIN sums
    /\ Len(history) >= 2
    /\ ret.err = "KeyError"

(***************************************************************************)
(* C12.  percentiles_for_period raises KeyError and returns no mapping     *)
(* whenever the requested period is not a key of probs or maps to an empty *)
(* power mapping.                                                          *)
(***************************************************************************)
C12_MissingPeriodNotFound ==
    (/\ ret.op = "percentiles_for_period"
     /\ \/ ret.arg[1] \notin DOMAIN probs
        \/ Keys(probs[ret.arg[1]]) = {})
        => ret.err = "KeyError" /\ ret.val = <<>>

\* a finalized instance asked for a period it does not hold
C12_Witness ==
    /\ sealed
    /\ probs # <<>>
    /\ ret.op = "percentiles_for_period"
    /\ ret.arg[1] \notin DOMAIN probs
    /\ ret.err = "KeyError"

(***************************************************************************)
(* C13.  A bin whose finalized probability is <= 1e-9 is never the power   *)
(* returned for a fraction, and the result of percentiles_for_period is    *)
(* the one computed from the distribution with those bins removed.         *)
(***************************************************************************)
C13_Kept(power_map) ==
    LET above(item) == RLess(Epsilon, item[2])
    IN  SelectSeq(power_map, above)

C13_DiscardedBinsIgnored ==
    Returned("percentiles_for_period") =>
        LET power_map == probs[ret.arg[1]]
        IN  /\ \A f \in DOMAIN ret.val :
                  RLess(Epsilon, Get(power_map, ret.val[f], Zero))
            /\ ret.val = percentiles_of(C13_Kept(power_map), ret.arg[2])

\* a query answered on a period whose highest bin holds a positive mass at
\* or below 1e-9, above a bin that is kept
C13_Witness ==
    /\ Returned("percentiles_for_period")
    /\ LET power_map == probs[ret.arg[1]]
       IN  /\ ValidBins(power_map) # {}
           /\ \E w \in Keys(power_map) \ ValidBins(power_map) :
                 /\ RLess(Zero, Get(power_map, w, Zero))
                 /\ w > MaxOf(ValidBins(power_map))
           /\ DOMAIN ret.val # {}

(***************************************************************************)
(* C14.  Whenever the queried period has a bin above 1e-9, the result of   *)
(* percentiles_for_period has a key for every requested fraction in        *)
(* [0, 1], also for those the true cumulative sum does not reach.          *)
(***************************************************************************)
C14_EveryFractionResolved ==
    (/\ Returned("percentiles_for_period")
     /\ ValidBins(probs[ret.arg[1]]) # {})
        => \A k \in 1..Len(ret.arg[2]) :
              (RLeq(Zero, ret.arg[2][k]) /\ RLeq(ret.arg[2][k], One))
                  => ret.arg[2][k] \in DOMAIN ret.val

\* three fractions, 1.0 among them, all answered on a period whose bins
\* above 1e-9 hold less than 1 in total
C14_Witness ==
    /\ Returned("percentiles_for_period")
    /\ Len(ret.arg[2]) = 3
    /\ LET power_map == probs[ret.arg[1]]
       IN  /\ ValidBins(power_map) # {}
           /\ RLess(MassUpTo(power_map, MaxOf(ValidBins(power_map))), One)
           /\ Cardinality(DOMAIN ret.val) = 3

(***************************************************************************)
(* C15.  As claimed: a period whose averaged total is exactly zero is kept *)
(* by finalize with all-zero entries, and percentiles_for_period on that   *)
(* period returns an empty mapping.  (Refuted: the probabilities 1 and -1  *)
(* in two bins average to a zero total with non-zero entries, and the bin  *)
(* holding 1 is returned.)                                                 *)
(***************************************************************************)
C15_ZeroTotalIsEmpty ==
    /\ Returned("finalize") =>
          \A period \in DOMAIN sums :
              total_prob_of(avg_map_of(sums[period], ret.arg)) = Zero =>
                  \A i \in 1..Len(probs[period]) : probs[period][i][2] = Zero
    /\ (/\ ret.op = "percentiles_for_period"
        /\ ret.arg[1] \in DOMAIN probs
        /\ SumOver(Keys(probs[ret.arg[1]]), AsMap(probs[ret.arg[1]])) = Zero)
          => ret.err = "none" /\ ret.val = <<>>

(***************************************************************************)
(* C16.  As claimed: after a successful finalize every value of probs, for *)
(* every period and power, lies in [0, 1].  (Refuted: a record with a      *)
(* negative probability, which parse produces from a token such as -1 and  *)
(* add_record accepts, leaves a negative value, and a value above 1 in     *)
(* another bin of the period.)                                             *)
(***************************************************************************)
C16_ProbsInUnitInterval ==
    sealed =>
        \A period \in DOMAIN probs :
            \A i \in 1..Len(probs[period]) :
                /\ RLeq(Zero, probs[period][i][2])
                /\ RLeq(probs[period][i][2], One)

(***************************************************************************)
(* C19.  percentiles_all_periods(fractions) returns a mapping whose keys   *)
(* are exactly the periods of probs, inserted in ascending period order,   *)
(* and whose value for each period is what percentiles_for_period computes *)
(* from that period's bins.                                                *)
(***************************************************************************)
C19_AllPeriodsIsPerPeriod ==
    Returned("percentiles_all_periods") =>
        /\ Keys(ret.val) = DOMAIN probs
        /\ Len(ret.val) = Cardinality(DOMAIN probs)
        /\ \A i, j \in 1..Len(ret.val) :
              i < j => ret.val[i][1] < ret.val[j][1]
        /\ \A i \in 1..Len(ret.val) :
              ret.val[i][2] = percentiles_of(probs[ret.val[i][1]], ret.arg)

\* two periods answered with different powers for the same fraction
C19_Witness ==
    /\ Returned("percentiles_all_periods")
    /\ Len(ret.val) = 2
    /\ \E f \in DOMAIN ret.val[1][2] \cap DOMAIN ret.val[2][2] :
          ret.val[1][2][f] # ret.val[2][2][f]

(***************************************************************************)
(* A second aggregator fed the records of h and finalized with num_files.  *)
(***************************************************************************)
ProbsAfter(h, num_files) == finalize_probs(SumsAfter(h), <<>>, num_files)

(***************************************************************************)
(* C20.  As claimed: two aggregators fed the same multiset of samples in   *)
(* two orders and finalized with the same file count return identical      *)
(* mappings from percentiles_for_period, for every period and every list   *)
(* of fractions.  (Refuted under float arithmetic: the total of a period   *)
(* is summed in insertion order, so the two distributions can differ by a  *)
(* rounding, and a fraction at a cumulative value then moves to the next   *)
(* bin.)                                                                   *)
(***************************************************************************)
C20_Original ==
    Returned("finalize") =>
        \A h \in Orders(history) :
            \A period \in DOMAIN probs :
                \A percentiles \in PercentileLists :
                    percentiles_of(ProbsAfter(h, ret.arg)[period], percentiles)
                        = percentiles_of(probs[period], percentiles)

(***************************************************************************)
(* C20, amended.  The answers depend on the finalized distribution as a    *)
(* mapping only, never on the order in which its bins were inserted: for   *)
(* two aggregators fed the same multiset of samples in two orders and      *)
(* finalized with the same file count, every period for which they hold    *)
(* equal power -> probability mappings gets identical results for every    *)
(* list of fractions, also when several bins have the same probability.    *)
(***************************************************************************)
C20_Amended ==
    Returned("finalize") =>
        \A h \in Orders(history) :
            \A period \in DOMAIN probs :
                AsMap(ProbsAfter(h, ret.arg)[period]) = AsMap(probs[period]) =>
                    \A percentiles \in PercentileLists :
                        percentiles_of(ProbsAfter(h, ret.arg)[period], percentiles)
                            = percentiles_of(probs[period], percentiles)

\* a finalized period with two bins of the same probability, inserted with
\* the higher power first, which another order of the records inserts with
\* the lower power first
C20_Witness ==
    /\ Returned("finalize")
    /\ \E period \in DOMAIN probs :
          /\ Len(probs[period]) >= 2
          /\ probs[period][1][1] > probs[period][2][1]
          /\ probs[period][1][2] = probs[period][2][2]
          /\ RLess(Epsilon, probs[period][1][2])
          /\ \E h \in Orders(history) :
                /\ ProbsAfter(h, ret.arg)[period] # probs[period]
                /\ AsMap(ProbsAfter(h, ret.arg)[period]) = AsMap(probs[period])

(***************************************************************************)
(* C17.  As claimed: every sample parse returns comes from a line of at    *)
(* least three tokens and has three finite fields.  (Refuted: float()      *)
(* accepts the tokens nan and inf, and parse returns the record.)          *)
(***************************************************************************)
C17_ParsedSamplesFinite ==
    (ret.op = "parse" /\ ret.val # <<>>) =>
        /\ Len(split(ret.arg)) >= 3
        /\ IsFinite(ret.val[1].period_log10)
        /\ IsFinite(ret.val[1].power_db)
        /\ IsFinite(ret.val[1].probability)

(***************************************************************************)
(* C18.  A malformed line (fewer than three tokens, or a token among the   *)
(* first three that is no number) makes parse return None without raising; *)
(* iter_records goes on to the next line of the same file, and nothing is  *)
(* added to the aggregator for the line.                                   *)
(***************************************************************************)
C18_Malformed == {LineShort, LineWord, LineBlank}

C18_MalformedLineSkipped ==
    [][(ret'.op = "parse" /\ ret'.arg \in C18_Malformed) =>
          /\ ret'.err = "none"
          /\ ret'.val = <<>>
          /\ history' = history
          /\ sums' = sums
          /\ reader'.idx = reader.idx
          /\ reader'.lines = Append(reader.lines, ret'.arg)]_vars

\* a line with two tokens and a line with a word were skipped, and the
\* sample on the line after them was added
C18_Witness ==
    /\ reader.lines = <<LineShort, LineWord, LineSample>>
    /\ ret.op = "parse"
    /\ ret.val # <<>>
    /\ history = <<PdfRecord(-1, -150, ret.val[1].probability)>>
    /\ DOMAIN sums = {-1}

(***************************************************************************)
(* The (period, power) keys of a two-level mapping.                        *)
(***************************************************************************)
KeySet(m) == UNION {{<<period, power>> : power \in Keys(m[period])} :
                        period \in DOMAIN m}

BinValue(m, period, power) ==
    IF period \in DOMAIN m THEN Get(m[period], power, Zero) ELSE Zero

(***************************************************************************)
(* C24.  add_record(sample) increases the sum at (sample.period_log10,     *)
(* sample.power_db) by sample.probability, from 0 if the bin is new, and   *)
(* leaves every other bin of sums and the whole of probs unchanged.        *)
(***************************************************************************)
C24_AddRecordFrame ==
    [][ret'.op = "add_record" =>
          LET period == ret'.arg.period_log10
              power == ret'.arg.power_db
          IN  /\ BinValue(sums', period, power)
                    = RAdd(BinValue(sums, period, power), ret'.arg.probability)
              /\ KeySet(sums') = KeySet(sums) \cup {<<period, power>>}
              /\ \A k \in KeySet(sums) \ {<<period, power>>} :
                    BinValue(sums', k[1], k[2]) = BinValue(sums, k[1], k[2])
              /\ probs' = probs]_vars

\* a record added to a bin that held a sum, on a finalized instance with
\* bins in another period
C24_Witness ==
    /\ ret.op = "add_record"
    /\ BinCount(ret.arg.period_log10, ret.arg.power_db) >= 2
    /\ Cardinality(DOMAIN sums) = 2
    /\ probs # <<>>

(***************************************************************************)
(* C25.  Only add_record changes sums: finalize, whether it succeeds or    *)
(* fails, percentiles_for_period and percentiles_all_periods leave it as   *)
(* it was, and no call removes a (period, power) key of sums.              *)
(***************************************************************************)
C25_SumsOnlyGrowByAdd ==
    [][/\ ret'.op # "add_record" => sums' = sums
       /\ KeySet(sums) \subseteq KeySet(sums')]_vars

\* a finalize that rescaled the values returned, and sums is still what the
\* records added up to
C25_Witness ==
    /\ Returned("finalize")
    /\ sums # <<>>
    /\ AsMaps(probs) # AsMaps(sums)
    /\ sums = SumsAfter(history)

(***************************************************************************)
(* C27.  As claimed: for fixed sums, the finalized probabilities of a      *)
(* period with positive total are the same for every file count > 0.       *)
(* (Refuted under float arithmetic: value / 3 is rounded, so finalize(1)   *)
(* and finalize(3) can differ in the last bit.)                            *)
(***************************************************************************)
C27_FileCounts == {1, 2, 3}

C27_Positive(period) == RLess(Zero, total_prob_of(sums[period]))

C27_Finalized(period, num_files) ==
    AsMap(renormalized(avg_map_of(sums[period], num_files)))

C27_Original ==
    \A period \in DOMAIN sums :
        C27_Positive(period) =>
            \A n, m \in C27_FileCounts :
                C27_Finalized(period, n) = C27_Finalized(period, m)

(***************************************************************************)
(* C27, amended.  For fixed sums, the finalized probabilities of a period  *)
(* with positive total are the same for two file counts n and 2n, and a    *)
(* repeated finalize with the same file count reproduces the distribution. *)
(***************************************************************************)
C27_Amended ==
    /\ \A period \in DOMAIN sums :
          C27_Positive(period) =>
              \A n \in C27_FileCounts :
                  C27_Finalized(period, n) = C27_Finalized(period, 2 * n)
    /\ Returned("finalize") =>
          AsMaps(finalize_probs(sums, probs, ret.arg)) = AsMaps(probs)

\* finalize(1) returned on a period of three bins with positive total
C27_Witness ==
    /\ Returned("finalize")
    /\ ret.arg = 1
    /\ \E period \in DOMAIN sums :
          /\ C27_Positive(period)
          /\ Len(sums[period]) = 3
          /\ AsMap(probs[period]) # AsMap(sums[period])

(***************************************************************************)
(* C28.  In every reachable state every period of sums and of probs maps   *)
(* to a non-empty power mapping; when finalize returns, probs has the      *)
(* (period, power) keys of sums; percentiles_all_periods never raises      *)
(* KeyError.                                                               *)
(***************************************************************************)
C28_NoEmptyPeriod ==
    /\ \A period \in DOMAIN sums : sums[period] # EmptyDict
    /\ \A period \in DOMAIN probs : probs[period] # EmptyDict
    /\ Returned("finalize") => KeySet(probs) = KeySet(sums)
    /\ ret.op = "percentiles_all_periods" => ret.err = "none"

\* percentiles_all_periods answered on an instance that holds a period
\* whose total is not positive
C28_Witness ==
    /\ Returned("percentiles_all_periods")
    /\ KeySet(probs) = KeySet(sums)
    /\ \E period \in DOMAIN probs :
          ~RLess(Zero, total_prob_of(probs[period]))

(***************************************************************************)
(* C21.  As claimed: in the loop of main() over the (station, component)   *)
(* units, a failure while one unit is processed never prevents a later     *)
(* unit from being aggregated, finalized and written.  (Refuted: a file    *)
(* whose bytes are no text raises UnicodeDecodeError, which nothing        *)
(* catches; main() ends with units still to come.)                         *)
(***************************************************************************)
C21_LaterUnits ==
    \/ driver.s_idx + 1 < Len(Stations)
    \/ driver.c_idx + 1 < Len(Components)

C21_FailureStaysInUnit == ~(driver.pc = "aborted" /\ C21_LaterUnits)

(***************************************************************************)
(* C22.  In main(), every add_record on a unit's aggregator happens before *)
(* its finalize; finalize is called on an aggregator that was not          *)
(* finalized before, with a file count above zero, and returns normally;   *)
(* every percentile query is made on a finalized aggregator.               *)
(***************************************************************************)
C22_AddsThenFinalizeThenQueries ==
    [][/\ Len(history') > Len(history) => ~sealed /\ ~sealed'
       /\ ret'.op = "finalize" =>
             /\ ~sealed
             /\ sealed'
             /\ ret'.arg > 0
             /\ ret'.err = "none"
       /\ ret'.op \in {"percentiles_all_periods", "percentiles_for_period"} =>
             sealed /\ sealed']_vars

\* the unit of the second station was fed, finalized and queried, after the
\* unit of the first station went without a file and was not finalized
C22_Witness ==
    /\ driver.pc = "render"
    /\ driver.s_idx = 1
    /\ driver.written = <<>>
    /\ Len(history) >= 2
    /\ sealed
    /\ Returned("percentiles_all_periods")

(***************************************************************************)
(* C23.  The aggregator of a unit holds the samples read for that unit, in *)
(* all the years read so far, and nothing else: its sums are those of a    *)
(* fresh aggregator fed the unit's records, and its probs, once finalized, *)
(* those of that aggregator finalized with the unit's file count.          *)
(***************************************************************************)
C23_UnitRecords == driver.prior \o records_of(reader.lines)

C23_FreshAggregatorPerUnit ==
    /\ AsMaps(sums) = AsMaps(SumsAfter(C23_UnitRecords))
    /\ sealed =>
          AsMaps(probs) =
             AsMaps(ProbsAfter(C23_UnitRecords, driver.total_files_processed))
    /\ ~sealed => DOMAIN probs = {}

\* the second unit, after the first was fed and written: records from an
\* earlier year and from the year being read are in its sums
C23_Witness ==
    /\ driver.s_idx = 1
    /\ driver.written = <<Unit([s_idx |-> 0, c_idx |-> 0])>>
    /\ driver.pc = "reading"
    /\ driver.prior # <<>>
    /\ records_of(reader.lines) # <<>>
    /\ Len(history) = Len(C23_UnitRecords)

(***************************************************************************)
(* C26.  write_percentiles_csv writes one row per period, in ascending     *)
(* order of the periods, and in the cell of every requested fraction that  *)
(* the period's mapping lacks it writes nan, no number.                    *)
(***************************************************************************)
C26_NanForMissing ==
    Returned("write_percentiles_csv") =>
       LET per_period == ret.arg[1]
           percentiles == ret.arg[2]
           rows == ret.val.rows
       IN  /\ Len(rows) = Cardinality(Keys(per_period))
           /\ \A i, j \in 1..Len(rows) :
                 i < j => rows[i][1].scaled < rows[j][1].scaled
           /\ \A i \in 1..Len(rows) :
                 \E period \in Keys(per_period) :
                    /\ rows[i][1].scaled = period * 1000000
                    /\ \A k \in 1..Len(percentiles) :
                          percentiles[k] \notin DOMAIN Get(per_period, period, <<>>)
                             => rows[i][k + 1] = NanText

\* two rows were written, one with a number and one with nan in the cell of
\* the same fraction
C26_Witness ==
    /\ Returned("write_percentiles_csv")
    /\ Len(ret.val.rows) = 2
    /\ \E i, j \in 1..2 :
          /\ ret.val.rows[i][2] = NanText
          /\ ret.val.rows[j][2] = format_fixed(-150, 3)

(***************************************************************************)
(* C29.  A file PDFanalysis.<year>.<day>.pdf, <day> a day of the year      *)
(* (1..366), in the directory of year Y is accepted by the reader of that  *)
(* year iff its year is Y and (Y, day) lies in the inclusive lexicographic *)
(* range from (start_year, start_day) to (end_year, end_day); names        *)
(* without an integer year and day are rejected; the file count passed to  *)
(* finalize is the number of the files accepted in the directories opened  *)
(* for the unit.                                                           *)
(***************************************************************************)
\* year and day of the names, read off by hand; <<>> where there is none
C29_YearDay(name) ==
    CASE name = Name2024d199 -> <<2024, 199>>
      [] name = Name2024d200 -> <<2024, 200>>
      [] name = Name2025d005 -> <<2025, 5>>
      [] name = Name2025d201 -> <<2025, 201>>
      [] name = Name2025d367 -> <<2025, 367>>
      [] name = Name2026d100 -> <<2026, 100>>
      [] name = Name2026d101 -> <<2026, 101>>
      [] OTHER -> <<>>

C29_InRange(args, Y, day) ==
    /\ day \in 1..366
    /\ args.start_year < Y \/ (args.start_year = Y /\ args.start_day <= day)
    /\ Y < args.end_year \/ (Y = args.end_year /\ day <= args.end_day)

C29_Accepted(args, Y, listing) ==
    {name \in listing :
        /\ C29_YearDay(name) # <<>>
        /\ C29_YearDay(name)[1] = Y
        /\ C29_InRange(args, Y, C29_YearDay(name)[2])}

RECURSIVE C29_Count(_, _)
C29_Count(args, seen) ==
    IF seen = <<>> THEN 0
    ELSE Cardinality(C29_Accepted(args, Head(seen)[1], Head(seen)[2]))
         + C29_Count(args, Tail(seen))

C29_AcceptedFilesInRange ==
    /\ driver.pc = "reading" =>
          LET last == driver.seen[Len(driver.seen)]
          IN  /\ last[1] = driver.current_year
              /\ {driver.files[i] : i \in 1..Len(driver.files)}
                    = C29_Accepted(driver.args, last[1], last[2])
              /\ reader.file_count = Cardinality(C29_Accepted(driver.args, last[1], last[2]))
              /\ reader.idx <= reader.file_count
    /\ ret.op = "finalize" =>
          ret.arg = C29_Count(driver.args, driver.seen)

\* finalize was called after three years: the first gave the file of its
\* first day and refused the one of the day before, the second gave a file
\* of a day below start_day and above end_day, the third its last day
C29_Witness ==
    /\ Returned("finalize")
    /\ ret.arg = 4
    /\ driver.seen = << <<2024, {Name2024d199, Name2024d200}>>,
                        <<2025, {Name2025d005, Name2025d201, Name2025word}>>,
                        <<2026, {Name2025d367, Name2026d100}>> >>

(***************************************************************************)
(* C30.  As claimed: the total_files column of every row of the CSV that   *)
(* main() writes for a unit, read as CSVReader reads it, is the number of  *)
(* files processed for the unit, the value passed to finalize.  (Refuted:  *)
(* main() calls write_percentiles_csv without total_files, and the column  *)
(* holds the default, 0.)                                                  *)
(***************************************************************************)
C30_TotalFilesColumn ==
    Returned("write_percentiles_csv") =>
       \A i \in 1..Len(ret.val.rows) :
          LET row == ret.val.rows[i]
          IN  int(row[Len(row)]) = driver.total_files_processed

====
